---- MODULE Spec2Model ----
(***************************************************************************)
(* The pulse-measurement screens of SamsaraDemoApp as one state machine.   *)
(*                                                                         *)
(* Three network variants of the pulse screen exist in the repository:     *)
(*   "PulseScanScreen"  src/screens/PulseScanScreen.js                     *)
(*   "part_004"         src/unnamed/part_004                               *)
(*   "part_005"         src/unnamed/part_005, lines 163-555                *)
(* The variable screen fixes which of them is mounted.                     *)
(*                                                                         *)
(* A step is one synchronous run of JavaScript: a press handler up to its  *)
(* first pending await, or the continuation of an async function from a    *)
(* settled promise up to its next pending await.  React commits the state  *)
(* updates of such a run before the next event is delivered, so the JSX    *)
(* conditions are evaluated on the current state.  The camera, the file    *)
(* system, the permission dialog and the backend are the environment;      *)
(* their answers are chosen nondeterministically from small sets.          *)
(*                                                                         *)
(* The other screens have specifications of their own over the same        *)
(* variables: ScanSpec (BarcodeScannerNative.js and the FoodScannerScreen  *)
(* of part_002; FoodSpec is the latter alone), AppSpec (the navigator of   *)
(* App.js, part_000, part_001 with AyurvedaBotScreen.js) and LocalSpec     *)
(* (the PulseScreen of part_005, lines 1-161).  In each of them the        *)
(* screens it does not model are at rest.                                  *)
(***************************************************************************)
EXTENDS Integers, Sequences, FiniteSets, TLC

---------------------------------------------------------------------------
(* Bounds of the model *)

\* number of presses of the start control in one run
MaxStarts == 2
\* number of uploadProgressCallback events in one upload
MaxProgress == 1

---------------------------------------------------------------------------
(* JavaScript values *)

Null == [t |-> "null"]
Undefined == [t |-> "undefined"]
Num(n) == [t |-> "number", v |-> n]
Str(s) == [t |-> "string", v |-> s]

\* ToBoolean, as used by  if (data.bpm),  a || b,  error && ...
Truthy(x) ==
  CASE x.t = "number" -> x.v # 0
    [] x.t = "string" -> x.v # ""
    [] OTHER -> FALSE

\* a || b
Or(a, b) == IF Truthy(a) THEN a ELSE b

Digit(d) ==
  CASE d = 0 -> "0" [] d = 1 -> "1" [] d = 2 -> "2" [] d = 3 -> "3"
    [] d = 4 -> "4" [] d = 5 -> "5" [] d = 6 -> "6" [] d = 7 -> "7"
    [] d = 8 -> "8" [] d = 9 -> "9"

RECURSIVE NatToString(_)
NatToString(n) ==
  IF n < 10 THEN Digit(n) ELSE NatToString(n \div 10) \o Digit(n % 10)

\* `${x}` : string conversion inside a template literal
TemplateString(x) ==
  CASE x.t = "number" -> NatToString(x.v)
    [] x.t = "string" -> x.v
    [] x.t = "null" -> "null"
    [] OTHER -> "undefined"

\* {x} as a child of <Text>: null and undefined render nothing
JsxText(x) ==
  CASE x.t = "number" -> NatToString(x.v)
    [] x.t = "string" -> x.v
    [] OTHER -> ""

\* s.includes(sub)
Includes(s, sub) ==
  \E i \in 1..(Len(s) - Len(sub) + 1) : SubSeq(s, i, i + Len(sub) - 1) = sub

\* s.substring(0, n)
Substring0(s, n) == IF Len(s) <= n THEN s ELSE SubSeq(s, 1, n)

---------------------------------------------------------------------------
(* The environment's answers *)

Screens == {"PulseScanScreen", "part_004", "part_005"}

\* the value of the useCameraPermissions hook: null while loading, else
\* {granted, canAskAgain}
PermissionStates == {"loading", "undetermined", "denied", "blocked", "granted"}
Granted(p) == p = "granted"
CanAskAgain(p) == p \in {"undetermined", "denied", "granted"}

\* messages with which recordAsync rejects after stopRecording was called
AbortMessages ==
  {"Aborted", "Call stopRecording failed", "Recording already stopped"}
\* the message with which recordAsync rejects while a recording is running
BusyMessage == "Another recording in progress"
\* messages with which recordAsync rejects on a capture failure (an Error
\* may also carry an empty message)
FailureMessages == {"Camera is not running", BusyMessage, ""}

\* sizes in MB of the recorded file as getInfoAsync reports them
FileSizes == {0, 1, 60}

\* response bodies: text that is not JSON, or a JSON object with any of
\* the fields bpm, detail, message
NotJsonBody == [json |-> FALSE, text |-> "Internal Server Error"]
JsonBody(b, d, m) == [json |-> TRUE, bpm |-> b, detail |-> d, message |-> m]
Bodies ==
  {NotJsonBody} \cup
  { JsonBody(b, d, m) :
      b \in {Undefined, Num(0), Num(72)},
      d \in {Undefined, Str("decode error")},
      m \in {Undefined, Str("bad video")} }
Statuses == {200, 201, 500}
Responses == [status : Statuses, body : Bodies]

\* response.ok of fetch
Ok(status) == 200 <= status /\ status <= 299

\* the message of the SyntaxError res.json() throws (engine text)
JsonSyntaxError == "JSON Parse error: Unexpected token"
\* the message with which fetch / uploadAsync reject when there is no answer
NetworkFailure == "Network request failed"

---------------------------------------------------------------------------
(* State *)

VARIABLES
  screen,          \* which variant of the pulse screen is mounted
  permission,      \* useCameraPermissions: the hook's value
  permRequest,     \* "none", or who called the pending requestPermission()
  settingsDialog,  \* part_004: the "Camera Permission" alert is open
  isRecording, isProcessing, isUploading,
  bpm, error, uploadProgress, showCamera,
  pc,              \* where the running startMeasurement / handleStartScan is
  recording,       \* the camera holds a pending recordAsync promise
  stopRequested,   \* stopRecording() was called on that recording
  file,            \* the video file of the running cycle
  progressEvents,  \* uploadProgressCallback events of the running upload
  tempFiles,       \* recorded files still in the cache directory
  history,         \* AsyncStorage 'heartRateHistory' for the current date
  starts,          \* presses of the start control so far
  recordCalls,     \* calls of cameraRef.current.recordAsync so far
  uploadCalls,     \* requests sent to API_URL so far
  wasDenied,       \* the permission dialog was answered with a denial
  lastEvent,       \* what the last step was
  stepAlerts       \* the Alert.alert calls of the last step

vars ==
  << screen, permission, permRequest, settingsDialog,
     isRecording, isProcessing, isUploading,
     bpm, error, uploadProgress, showCamera,
     pc, recording, stopRequested, file, progressEvents, tempFiles,
     history, starts, recordCalls, uploadCalls, wasDenied,
     lastEvent, stepAlerts >>

uiVars == << isRecording, isProcessing, isUploading, bpm, error,
             uploadProgress, showCamera >>
permVars == << permission, permRequest, settingsDialog, wasDenied >>
taskVars == << pc, recording, stopRequested, file, progressEvents,
               tempFiles, recordCalls, uploadCalls >>
logVars == << history, starts >>

VARIABLES
  scanner,         \* "barcode" or "food": which scanner screen is mounted
  image,           \* useState image: 0 for null, else the number of the pick
  loading,         \* BarcodeScannerNative
  serverResult,    \* BarcodeScannerNative
  savedFoods,      \* BarcodeScannerNative
  analyzing,       \* FoodScannerScreen
  result,          \* FoodScannerScreen
  errorMsg,        \* FoodScannerScreen
  storage,         \* AsyncStorage "SAVED_BARCODES", << >> when the key is unset
  loadPending,     \* the mount effect's getItem: its value, and whether it is undelivered
  uploads,         \* the runs of uploadImage / uploadToBackend, by number
  picks,           \* images picked so far
  scans,           \* runs of uploadImage / uploadToBackend started so far
  requests,        \* requests sent to BACKEND_URL / ANALYZE_URL so far
  reads, writes,   \* calls of AsyncStorage.getItem / setItem so far
  successes        \* uploads that ended with a result so far

scanVars ==
  << scanner, image, loading, serverResult, savedFoods, analyzing, result,
     errorMsg, storage, loadPending, uploads, picks, scans, requests,
     reads, writes, successes >>

VARIABLES
  app,             \* which App component is the root: "App.js", "part_000", "part_001"
  routes,          \* the stack navigator's routes, the focused one last
  input,           \* AyurvedaBotScreen
  messages,        \* AyurvedaBotScreen: the roles and kinds of the messages
  chatLoading,     \* AyurvedaBotScreen: loading
  chatPc,          \* where the running sendMessage is: "idle", "fetch", "json"
  timers,          \* the sends whose setTimeout has neither fired nor been cleared
  sends            \* runs of sendMessage that went past the guard so far

appVars ==
  << app, routes, input, messages, chatLoading, chatPc, timers, sends >>

VARIABLES
  hasPermission,   \* PulseScreen: "null", "true" or "false"
  scanning,        \* PulseScreen
  arrays,          \* the arrays that were made for the current date's rates
  historyHook,     \* PulseScreen: history[today], as the number of its array, or 0
  historyLoad,     \* loadHistory: its getItem is "none", "pending" or "done", and
                   \* the value it read for the current date
  scanHistory,     \* for each scan, historyHook in the render it was started in
  torch,           \* the torch mode set by setTorchModeAsync
  interval,        \* the setInterval of startPPGScan is active
  shots,           \* for each scan, its takePictureAsync calls that are pending
  elapsed,         \* more than 20000 ms have passed since startTime
  ticks,           \* interval callbacks run in the current scan
  scanEnds,        \* runs of the "Stop after 20 seconds" block in the current scan
  localScans       \* scans started so far

localVars ==
  << hasPermission, scanning, arrays, historyHook, historyLoad, scanHistory,
     torch, interval, shots, elapsed, ticks, scanEnds, localScans >>

\* the pulse screens' variables without the record of the last step
pulseVars ==
  << screen, permVars, uiVars, taskVars, logVars >>

\* the scanner screens are not mounted
ScanAtRest ==
  /\ scanner = "barcode"
  /\ image = 0
  /\ loading = FALSE
  /\ serverResult = [t |-> "null"]
  /\ savedFoods = << >>
  /\ analyzing = FALSE
  /\ result = [t |-> "null"]
  /\ errorMsg = [t |-> "null"]
  /\ storage = << >>
  /\ loadPending = [value |-> << >>, pending |-> FALSE]
  /\ uploads = << >>
  /\ picks = 0 /\ scans = 0 /\ requests = 0
  /\ reads = 0 /\ writes = 0 /\ successes = 0

\* no App component is mounted
AppAtRest ==
  /\ app = "App.js"
  /\ routes = << >>
  /\ input = ""
  /\ messages = << >>
  /\ chatLoading = FALSE
  /\ chatPc = "idle"
  /\ timers = {}
  /\ sends = 0

\* the PulseScreen of part_005 is not mounted
LocalAtRest ==
  /\ hasPermission = "null"
  /\ scanning = FALSE
  /\ arrays = << >>
  /\ historyHook = 0
  /\ historyLoad = [pc |-> "none", value |-> << >>]
  /\ scanHistory = << >>
  /\ torch = FALSE
  /\ interval = FALSE
  /\ shots = << >>
  /\ elapsed = FALSE
  /\ ticks = 0 /\ scanEnds = 0 /\ localScans = 0

\* no pulse screen of the three network variants is mounted
PulseAtRest ==
  /\ permission = "loading" /\ permRequest = "none"
  /\ settingsDialog = FALSE /\ wasDenied = FALSE
  /\ isRecording = FALSE /\ isProcessing = FALSE /\ isUploading = FALSE
  /\ bpm = [t |-> "null"] /\ error = [t |-> "null"]
  /\ uploadProgress = "" /\ showCamera = TRUE
  /\ pc = "idle" /\ recording = FALSE /\ stopRequested = FALSE
  /\ file = [exists |-> FALSE, size |-> 0]
  /\ progressEvents = 0 /\ tempFiles = 0
  /\ recordCalls = 0 /\ uploadCalls = 0
  /\ starts = 0
  /\ lastEvent = [name |-> "mount"]
  /\ stepAlerts = << >>

NoFile == [exists |-> FALSE, size |-> 0]
Alert(title, message) == [title |-> title, message |-> message]
Event(name) == [name |-> name]

Init ==
  /\ screen \in Screens
  /\ permission = "loading"
  /\ permRequest = "none"
  /\ settingsDialog = FALSE
  /\ isRecording = FALSE
  /\ isProcessing = FALSE
  /\ isUploading = FALSE
  /\ bpm = Null
  /\ error = Null
  /\ uploadProgress = ""
  /\ showCamera = TRUE
  /\ pc = "idle"
  /\ recording = FALSE
  /\ stopRequested = FALSE
  /\ file = NoFile
  /\ progressEvents = 0
  /\ tempFiles = 0
  /\ history \in {<< >>, << 65 >>}
  /\ starts = 0
  /\ recordCalls = 0
  /\ uploadCalls = 0
  /\ wasDenied = FALSE
  /\ lastEvent = Event("mount")
  /\ stepAlerts = << >>
  /\ ScanAtRest /\ AppAtRest /\ LocalAtRest

---------------------------------------------------------------------------
(* What is rendered *)

\* View without the  if (!permission.granted)  returns
View_WithoutPermissionBranches ==
  IF permission = "loading" THEN "blank" ELSE "main"

\* which of the component's return statements is taken
View ==
  CASE permission = "loading" -> "blank"
    [] screen = "PulseScanScreen" /\ ~Granted(permission) -> "grant"
    [] screen # "PulseScanScreen" /\ ~Granted(permission)
         /\ ~CanAskAgain(permission) ->
           IF screen = "part_004" THEN "settings" ELSE "rationale"
    [] screen # "PulseScanScreen" /\ ~Granted(permission) -> "grant"
    [] OTHER -> "main"

\* <CameraView ref={cameraRef}> is mounted, so cameraRef.current is set
CameraMounted ==
  View = "main" /\ (screen = "part_004" => showCamera)

\* the enableTorch prop of the mounted CameraView
EnableTorch ==
  IF screen = "PulseScanScreen" THEN TRUE ELSE isRecording

\* the torch is lit
TorchOn == CameraMounted /\ EnableTorch

\* StartShown without the conditions on isRecording, isProcessing and bpm
StartShown_Always == View = "main"

\* the "Start Measurement" / "Start 8s Scan" button is rendered
StartShown ==
  /\ View = "main"
  /\ CASE screen = "PulseScanScreen" -> ~isRecording
       [] screen = "part_004" -> ~isRecording /\ ~isProcessing /\ bpm = Null
       [] OTHER -> ~isRecording /\ ~isUploading /\ bpm = Null

\* the "Stop Recording" button is rendered
StopShown == View = "main" /\ screen = "part_004" /\ isRecording

\* the card's progress branch is rendered
ProgressShown ==
  /\ View = "main"
  /\ CASE screen = "part_004" -> ~isRecording /\ isProcessing
       [] screen = "part_005" -> isUploading /\ ~isRecording
       [] OTHER -> FALSE

\* the heart-rate result is rendered
ResultShown ==
  /\ View = "main"
  /\ CASE screen = "PulseScanScreen" -> bpm # Null /\ ~isRecording
       [] screen = "part_004" -> ~isRecording /\ ~isProcessing /\ bpm # Null
       [] OTHER -> ~isRecording /\ ~isUploading /\ bpm # Null

\* <Text>{bpm} BPM</Text>
ResultText == JsxText(bpm) \o " BPM"

\* the inline error text is rendered
ErrorShown ==
  /\ View = "main"
  /\ Truthy(error)
  /\ CASE screen = "PulseScanScreen" -> ~isRecording
       [] screen = "part_004" -> ~isRecording /\ ~isProcessing
       [] OTHER -> ~isRecording /\ ~isUploading

\* "Measure Again" / "Try Again" is rendered
ResetShown ==
  CASE screen = "part_004" -> ResultShown \/ ErrorShown
    [] screen = "part_005" -> ResultShown
    [] OTHER -> FALSE

---------------------------------------------------------------------------
(* Permission gate *)

\* part_004, useEffect on [permission, requestPermission]: the request the
\* effect makes when the hook's value has become p
EffectRequest(p) ==
  IF screen = "part_004" /\ p # "loading" /\ ~Granted(p) /\ CanAskAgain(p)
  THEN "effect" ELSE "none"

\* the hook reads the platform's permission on mount
PermissionLoaded ==
  /\ permission = "loading"
  /\ \E p \in PermissionStates \ {"loading"} :
       /\ permission' = p
       /\ permRequest' = EffectRequest(p)
  /\ lastEvent' = Event("permissionLoaded")
  /\ stepAlerts' = << >>
  /\ UNCHANGED << screen, settingsDialog, wasDenied, uiVars, taskVars, logVars >>

\* the "Grant Permission" button
PressGrant ==
  /\ View = "grant"
  /\ permRequest = "none"
  /\ permRequest' = "user"
  /\ lastEvent' = Event("pressGrant")
  /\ stepAlerts' = << >>
  /\ UNCHANGED << screen, permission, settingsDialog, wasDenied, uiVars,
                  taskVars, logVars >>

\* part_004 handleOpenSettings, on the "Open Settings" button
PressOpenSettings ==
  /\ View = "settings"
  /\ ~settingsDialog
  /\ settingsDialog' = TRUE
  /\ lastEvent' = Event("pressOpenSettings")
  /\ stepAlerts' = << Alert("Camera Permission",
         "Camera access is blocked. Please enable it in system settings.") >>
  /\ UNCHANGED << screen, permission, permRequest, wasDenied, uiVars,
                  taskVars, logVars >>

\* the dialog's "Cancel" or "Open Settings" (Linking.openSettings) button
SettingsDialogClosed ==
  /\ settingsDialog
  /\ settingsDialog' = FALSE
  /\ \E b \in {"Cancel", "Open Settings"} :
       lastEvent' = [name |-> "settingsDialogClosed", button |-> b]
  /\ stepAlerts' = << >>
  /\ UNCHANGED << screen, permission, permRequest, wasDenied, uiVars,
                  taskVars, logVars >>

---------------------------------------------------------------------------
(* The camera *)

\* cameraRef.current.recordAsync(...) is called on an idle camera
RecordAsyncCalled ==
  /\ recording' = TRUE
  /\ stopRequested' = FALSE
  /\ recordCalls' = recordCalls + 1
  /\ pc' = "recording"
  /\ UNCHANGED << file, progressEvents, tempFiles, uploadCalls >>

\* ... on a camera that is recording: the call is counted and its promise
\* rejects with BusyMessage; the running recording goes on
RecordAsyncBusy ==
  /\ recordCalls' = recordCalls + 1
  /\ UNCHANGED << pc, recording, stopRequested, file, progressEvents,
                  tempFiles, uploadCalls >>

\* the recording has ended and left no file
RecordingEndedNoFile ==
  /\ recording' = FALSE
  /\ stopRequested' = FALSE
  /\ pc' = "idle"
  /\ UNCHANGED << file, progressEvents, tempFiles, recordCalls, uploadCalls >>

\* the videos recordAsync may resolve with: none, or { uri } naming a file
\* of the cache directory
Videos ==
  {[uri |-> FALSE, exists |-> FALSE, size |-> 0]} \cup
  [uri : {TRUE}, exists : {TRUE}, size : FileSizes] \cup
  {[uri |-> TRUE, exists |-> FALSE, size |-> 0]}

\* the recording has ended with video v, and the handler goes on at next
RecordingEndedWith(v, next) ==
  /\ recording' = FALSE
  /\ stopRequested' = FALSE
  /\ file' = [exists |-> v.exists, size |-> v.size]
  /\ tempFiles' = IF v.exists THEN tempFiles + 1 ELSE tempFiles
  /\ pc' = next
  /\ UNCHANGED << recordCalls >>

\* RequestSent with the request sent a second time
RequestSent_Twice ==
  /\ uploadCalls' = uploadCalls + 2
  /\ progressEvents' = 0

\* a request with the video is sent to API_URL
RequestSent ==
  /\ uploadCalls' = uploadCalls + 1
  /\ progressEvents' = 0

\* the request has settled and the cycle is over; nothing deletes the file
CycleOver ==
  /\ pc' = "idle"
  /\ UNCHANGED << recording, stopRequested, file, progressEvents, tempFiles,
                  recordCalls, uploadCalls >>

\* what a request to API_URL ends with: a response, or no answer
Outcomes ==
  {[kind |-> "networkError"]} \cup [kind : {"response"}, response : Responses]

---------------------------------------------------------------------------
(* src/screens/PulseScanScreen.js *)

\* PSS_uploadError with the server's detail dropped
PSS_uploadError_WithoutDetail(o) ==
  IF o.kind = "networkError" THEN Str(NetworkFailure)
  ELSE IF ~o.response.body.json THEN Str(JsonSyntaxError)
  ELSE IF ~Ok(o.response.status)
    THEN Str("Server error while analyzing video")
  ELSE Null

\* uploadVideoAndGetBpm, from  const data = await res.json()  on: the
\* message of the error thrown for outcome o, or Null when none is thrown
PSS_uploadError(o) ==
  IF o.kind = "networkError" THEN Str(NetworkFailure)
  ELSE IF ~o.response.body.json THEN Str(JsonSyntaxError)
  ELSE IF ~Ok(o.response.status)
    THEN Str(TemplateString(Or(o.response.body.detail,
                               Str("Server error while analyzing video"))))
  ELSE Null

\* startMeasurement up to  await recordAsync
PSS_startMeasurement ==
  IF ~CameraMounted
  THEN /\ stepAlerts' = << Alert("Error", "Camera not ready yet") >>
       /\ UNCHANGED << uiVars, taskVars >>
  ELSE IF recording
  THEN /\ RecordAsyncBusy
       /\ error' = Null
       /\ bpm' = Null
       /\ isRecording' = FALSE
       /\ stepAlerts' = << Alert("Camera Busy", "Please try again.") >>
       /\ UNCHANGED << isProcessing, isUploading, uploadProgress, showCamera >>
  ELSE /\ RecordAsyncCalled
       /\ isRecording' = TRUE
       /\ error' = Null
       /\ bpm' = Null
       /\ stepAlerts' = << >>
       /\ UNCHANGED << isProcessing, isUploading, uploadProgress, showCamera >>

\* startMeasurement: recordAsync has resolved with v
PSS_recorded(v) ==
  IF ~v.uri
  THEN /\ RecordingEndedNoFile
       /\ isRecording' = FALSE
       /\ stepAlerts' = << Alert("Error", "No video captured") >>
       /\ UNCHANGED << isProcessing, isUploading, bpm, error, uploadProgress,
                       showCamera >>
  ELSE /\ RecordingEndedWith(v, "uploading")
       /\ RequestSent
       /\ error' = Null
       /\ bpm' = Null
       /\ stepAlerts' = << >>
       /\ UNCHANGED << isRecording, isProcessing, isUploading, uploadProgress,
                       showCamera >>

\* startMeasurement: recordAsync has rejected with message m
PSS_recordFailed(m) ==
  /\ RecordingEndedNoFile
  /\ isRecording' = FALSE
  /\ stepAlerts' =
       IF Includes(m, BusyMessage)
       THEN << Alert("Camera Busy", "Please try again.") >>
       ELSE IF m # "" /\ m # "Aborted" THEN << Alert("Error", m) >>
       ELSE << >>
  /\ UNCHANGED << isProcessing, isUploading, bpm, error, uploadProgress,
                  showCamera >>

\* uploadVideoAndGetBpm after the fetch, then startMeasurement's finally
PSS_uploaded(o) ==
  /\ CycleOver
  /\ isRecording' = FALSE
  /\ IF PSS_uploadError(o) # Null
     THEN LET msg == TemplateString(Or(PSS_uploadError(o),
                                       Str("Something went wrong")))
          IN /\ error' = Str(msg)
             /\ stepAlerts' = << Alert("Error", msg) >>
             /\ UNCHANGED bpm
     ELSE /\ bpm' = o.response.body.bpm
          /\ stepAlerts' = << >>
          /\ UNCHANGED error
  /\ UNCHANGED << isProcessing, isUploading, uploadProgress, showCamera >>

---------------------------------------------------------------------------
(* src/unnamed/part_004 *)

\* the bytes of one upload, in units of the progress events
UploadBytes == 3

\* (totalBytesSent / totalBytesExpectedToSend * 100).toFixed(0)
Percent(sent, expected) == (200 * sent + expected) \div (2 * expected)

\* P4_reported without the comparisons against the abort messages
P4_reported_EveryMessage(m) == m # ""

\* startMeasurement's catch: the error is reported unless it is one of the
\* messages a stopped recording rejects with
P4_reported(m) ==
  /\ m # ""
  /\ m # "Aborted"
  /\ ~Includes(m, "stopRecording")
  /\ ~Includes(m, "Recording already stopped")

\* startMeasurement's catch and finally for an error with message m
P4_catch(m) ==
  /\ isRecording' = FALSE
  /\ IF P4_reported(m)
     THEN /\ error' = Str(m)
          /\ isProcessing' = FALSE
          /\ showCamera' = TRUE
          /\ stepAlerts' = << Alert("Error", m) >>
     ELSE /\ stepAlerts' = << >>
          /\ UNCHANGED << error, isProcessing, showCamera >>

\* startMeasurement up to  await recordAsync
P4_startMeasurement ==
  IF ~CameraMounted
  THEN /\ stepAlerts' = << Alert("Error", "Camera not ready yet") >>
       /\ UNCHANGED << uiVars, taskVars >>
  ELSE IF isRecording
  THEN /\ stepAlerts' = << >>
       /\ UNCHANGED << uiVars, taskVars >>
  ELSE IF recording
  THEN /\ RecordAsyncBusy
       /\ P4_catch(BusyMessage)
       /\ bpm' = Null
       /\ uploadProgress' = ""
       /\ UNCHANGED isUploading
  ELSE /\ RecordAsyncCalled
       /\ isRecording' = TRUE
       /\ error' = Null
       /\ bpm' = Null
       /\ uploadProgress' = ""
       /\ showCamera' = TRUE
       /\ stepAlerts' = << >>
       /\ UNCHANGED << isProcessing, isUploading >>

\* stopMeasurement
P4_stopMeasurement ==
  IF ~CameraMounted \/ ~isRecording
  THEN UNCHANGED stopRequested
  ELSE stopRequested' = TRUE

\* P4_resetForNewMeasurement without setShowCamera(true)
P4_resetForNewMeasurement_CameraKept ==
  /\ bpm' = Null
  /\ error' = Null
  /\ uploadProgress' = ""
  /\ isProcessing' = FALSE
  /\ UNCHANGED << showCamera, isRecording, isUploading >>

\* resetForNewMeasurement
P4_resetForNewMeasurement ==
  /\ bpm' = Null
  /\ error' = Null
  /\ uploadProgress' = ""
  /\ isProcessing' = FALSE
  /\ showCamera' = TRUE
  /\ UNCHANGED << isRecording, isUploading >>

\* startMeasurement: recordAsync has resolved with v; with a video,
\* uploadVideoAndGetBpm runs up to  await getInfoAsync
P4_recorded(v) ==
  IF ~v.uri
  THEN /\ RecordingEndedNoFile
       /\ P4_catch("No video captured")
       /\ UNCHANGED << isUploading, bpm, uploadProgress >>
  ELSE /\ RecordingEndedWith(v, "fileInfo")
       /\ showCamera' = FALSE
       /\ isProcessing' = TRUE
       /\ uploadProgress' = "Processing video..."
       /\ error' = Null
       /\ bpm' = Null
       /\ stepAlerts' = << >>
       /\ UNCHANGED << isRecording, isUploading, uploadCalls, progressEvents >>

\* startMeasurement: recordAsync has rejected with message m
P4_recordFailed(m) ==
  /\ RecordingEndedNoFile
  /\ P4_catch(m)
  /\ UNCHANGED << isUploading, bpm, uploadProgress >>

\* uploadVideoAndGetBpm's catch for an error with message m, then
\* startMeasurement's finally
P4_uploadCatch(m) ==
  LET msg == IF m # "" THEN m ELSE "Something went wrong"
  IN /\ error' = Str(msg)
     /\ uploadProgress' = ""
     /\ isProcessing' = FALSE
     /\ isRecording' = FALSE
     /\ stepAlerts' = << Alert("Error", msg) >>
     /\ UNCHANGED << isUploading, bpm, showCamera >>

\* uploadVideoAndGetBpm: getInfoAsync has resolved
P4_fileInfo ==
  IF ~file.exists
  THEN /\ P4_uploadCatch("Video file not found")
       /\ CycleOver
  ELSE /\ uploadProgress' =
            IF file.size > 50
            THEN "Uploading large file (" \o NatToString(file.size)
                   \o "MB)... This may take a while"
            ELSE "Uploading video..."
       /\ RequestSent
       /\ pc' = "uploading"
       /\ stepAlerts' = << >>
       /\ UNCHANGED << isRecording, isProcessing, isUploading, bpm, error,
                       showCamera, recording, stopRequested, file, tempFiles,
                       recordCalls >>

\* uploadProgressCallback
P4_uploadProgressCallback(sent) ==
  /\ uploadProgress' =
       "Uploading... " \o NatToString(Percent(sent, UploadBytes)) \o "%"
  /\ progressEvents' = progressEvents + 1
  /\ stepAlerts' = << >>
  /\ UNCHANGED << isRecording, isProcessing, isUploading, bpm, error,
                  showCamera, pc, recording, stopRequested, file, tempFiles,
                  recordCalls, uploadCalls >>

\* uploadVideoAndGetBpm, from JSON.parse on: the message of the error thrown
\* for outcome o, or Null when none is thrown
P4_uploadError(o) ==
  IF o.kind = "networkError" THEN Str(NetworkFailure)
  ELSE IF ~o.response.body.json
    THEN Str("Server returned invalid response: "
               \o Substring0(o.response.body.text, 100))
  ELSE IF o.response.status # 200
    THEN Str(TemplateString(
           Or(o.response.body.detail,
              Or(o.response.body.message,
                 Str("Server error: " \o NatToString(o.response.status))))))
  ELSE IF ~Truthy(o.response.body.bpm) THEN Str("No BPM data in response")
  ELSE Null

\* uploadVideoAndGetBpm after uploadAsync, then startMeasurement's finally
P4_uploaded(o) ==
  /\ CycleOver
  /\ IF P4_uploadError(o) # Null
     THEN P4_uploadCatch(P4_uploadError(o).v)
     ELSE /\ bpm' = o.response.body.bpm
          /\ uploadProgress' = ""
          /\ isProcessing' = FALSE
          /\ isRecording' = FALSE
          /\ stepAlerts' = << Alert("Success!",
               "Your heart rate is "
                 \o TemplateString(o.response.body.bpm) \o " BPM") >>
          /\ UNCHANGED << isUploading, error, showCamera >>

---------------------------------------------------------------------------
(* src/unnamed/part_005, PulseScanScreen *)

\* handleStartScan's catch for an error with message m
P5_catch(m) ==
  LET msg == IF m # "" THEN m ELSE "Recording failed"
  IN /\ isRecording' = FALSE
     /\ isUploading' = FALSE
     /\ error' = Str(msg)
     /\ stepAlerts' = << Alert("Error", msg) >>

\* handleStartScan from  if (!cameraRef.current)  up to  await recordAsync
P5_startRecording ==
  IF ~CameraMounted
  THEN /\ stepAlerts' = << Alert("Camera not ready",
                                 "Please wait a moment and try again.") >>
       /\ UNCHANGED << uiVars, taskVars >>
  ELSE IF recording
  THEN /\ RecordAsyncBusy
       /\ P5_catch(BusyMessage)
       /\ bpm' = Null
       /\ UNCHANGED << isProcessing, uploadProgress, showCamera >>
  ELSE /\ RecordAsyncCalled
       /\ error' = Null
       /\ bpm' = Null
       /\ isRecording' = TRUE
       /\ stepAlerts' = << >>
       /\ UNCHANGED << isProcessing, isUploading, uploadProgress, showCamera >>

\* handleStartScan up to its first pending await (the button that calls it
\* is rendered only under a granted permission, so the request branch is
\* not reached from the screen)
P5_handleStartScan ==
  IF ~Granted(permission)
  THEN /\ permRequest' = "handleStartScan"
       /\ stepAlerts' = << >>
       /\ UNCHANGED << permission, uiVars, taskVars >>
  ELSE /\ P5_startRecording
       /\ UNCHANGED << permission, permRequest >>

\* handleStartScan: its own requestPermission() has resolved with p
P5_permissionResult(p) ==
  IF ~Granted(p)
  THEN /\ stepAlerts' = << Alert("Permission required",
            "Camera permission is needed to measure your pulse.") >>
       /\ UNCHANGED << uiVars, taskVars >>
  ELSE P5_startRecording

\* handleStartScan: recordAsync has resolved with v; with a video,
\* uploadVideo runs up to  await fetch
P5_recorded(v) ==
  IF ~v.uri
  THEN /\ RecordingEndedNoFile
       /\ P5_catch("No video captured.")
       /\ UNCHANGED << isProcessing, bpm, uploadProgress, showCamera >>
  ELSE /\ RecordingEndedWith(v, "uploading")
       /\ RequestSent
       /\ isRecording' = FALSE
       /\ isUploading' = TRUE
       /\ stepAlerts' = << >>
       /\ UNCHANGED << isProcessing, bpm, error, uploadProgress, showCamera >>

\* handleStartScan: recordAsync has rejected with message m
P5_recordFailed(m) ==
  /\ RecordingEndedNoFile
  /\ P5_catch(m)
  /\ UNCHANGED << isProcessing, bpm, uploadProgress, showCamera >>

\* uploadVideo, from  const data = await response.json()  on: the message
\* of the error thrown for outcome o, or Null when none is thrown
P5_uploadError(o) ==
  IF o.kind = "networkError" THEN Str(NetworkFailure)
  ELSE IF ~o.response.body.json THEN Str(JsonSyntaxError)
  ELSE IF ~Ok(o.response.status)
    THEN Str(TemplateString(Or(o.response.body.detail,
                               Str("Unable to calculate heart rate"))))
  ELSE Null

\* uploadVideo after the fetch
P5_uploaded(o) ==
  /\ CycleOver
  /\ isUploading' = FALSE
  /\ IF P5_uploadError(o) # Null
     THEN LET msg == TemplateString(Or(P5_uploadError(o),
                                       Str("Failed to analyze video")))
          IN /\ error' = Str(msg)
             /\ stepAlerts' = << Alert("Error", msg) >>
             /\ UNCHANGED bpm
     ELSE /\ bpm' = o.response.body.bpm
          /\ stepAlerts' = << Alert("Measurement complete",
               "Your heart rate is "
                 \o TemplateString(o.response.body.bpm) \o " BPM") >>
          /\ UNCHANGED error
  /\ UNCHANGED << isRecording, isProcessing, uploadProgress, showCamera >>

\* the "Measure Again" button's onPress
P5_measureAgain ==
  /\ bpm' = Null
  /\ error' = Null
  /\ UNCHANGED << isRecording, isProcessing, isUploading, uploadProgress,
                  showCamera >>

---------------------------------------------------------------------------
(* Steps *)

\* requestPermission() resolves: the hook stores the platform's answer
PermissionAnswered ==
  /\ permRequest # "none"
  /\ \E p \in IF permission = "blocked"
              THEN {"blocked"} ELSE {"granted", "denied", "blocked"} :
       /\ permission' = p
       /\ permRequest' = EffectRequest(p)
       /\ wasDenied' = (wasDenied \/ ~Granted(p))
       /\ IF permRequest = "handleStartScan"
          THEN P5_permissionResult(p)
          ELSE stepAlerts' = << >> /\ UNCHANGED << uiVars, taskVars >>
  /\ lastEvent' = [name |-> "permissionAnswered", by |-> permRequest]
  /\ UNCHANGED << screen, settingsDialog, logVars >>

\* the start button is pressed
PressStart ==
  /\ StartShown
  /\ starts < MaxStarts
  /\ starts' = starts + 1
  /\ lastEvent' = Event("pressStart")
  /\ CASE screen = "PulseScanScreen" ->
            PSS_startMeasurement /\ UNCHANGED << permission, permRequest >>
       [] screen = "part_004" ->
            P4_startMeasurement /\ UNCHANGED << permission, permRequest >>
       [] OTHER -> P5_handleStartScan
  /\ UNCHANGED << screen, settingsDialog, wasDenied, history >>

\* part_004: the "Stop Recording" button is pressed
PressStop ==
  /\ StopShown
  /\ P4_stopMeasurement
  /\ lastEvent' = Event("pressStop")
  /\ stepAlerts' = << >>
  /\ UNCHANGED << screen, permVars, uiVars, logVars, pc, recording, file,
                  progressEvents, tempFiles, recordCalls, uploadCalls >>

\* the onPress of "Measure Again" / "Try Again"
ResetHandler ==
  IF screen = "part_004" THEN P4_resetForNewMeasurement ELSE P5_measureAgain

\* "Measure Again" or "Try Again" is pressed
PressReset ==
  /\ ResetShown
  /\ ResetHandler
  /\ lastEvent' = [name |-> "pressReset",
                   after |-> IF bpm # Null THEN "result" ELSE "failure"]
  /\ stepAlerts' = << >>
  /\ UNCHANGED << screen, permVars, taskVars, logVars >>

\* recordAsync resolves: at maxDuration where the call gives one, after
\* stopRecording() where it gives none
RecordResolved ==
  /\ recording
  /\ pc = "recording"
  /\ screen = "part_004" => stopRequested
  /\ \E v \in Videos :
       /\ CASE screen = "PulseScanScreen" -> PSS_recorded(v)
            [] screen = "part_004" -> P4_recorded(v)
            [] OTHER -> P5_recorded(v)
       /\ lastEvent' = [name |-> "recordResolved", video |-> v,
                        stopped |-> stopRequested]
  /\ UNCHANGED << screen, permVars, logVars >>

\* recordAsync rejects: a capture failure, or the abort of a stopped
\* recording
RecordRejected ==
  /\ recording
  /\ pc = "recording"
  /\ \E m \in FailureMessages \cup
              (IF stopRequested THEN AbortMessages ELSE {}) :
       /\ CASE screen = "PulseScanScreen" -> PSS_recordFailed(m)
            [] screen = "part_004" -> P4_recordFailed(m)
            [] OTHER -> P5_recordFailed(m)
       /\ lastEvent' = [name |-> "recordRejected", message |-> m,
                        stopped |-> stopRequested]
  /\ UNCHANGED << screen, permVars, logVars >>

\* part_004: getInfoAsync resolves
FileInfoResolved ==
  /\ pc = "fileInfo"
  /\ P4_fileInfo
  /\ lastEvent' = [name |-> "fileInfo", exists |-> file.exists]
  /\ UNCHANGED << screen, permVars, logVars >>

\* part_004: uploadAsync reports progress
UploadProgress ==
  /\ pc = "uploading"
  /\ screen = "part_004"
  /\ progressEvents < MaxProgress
  /\ \E sent \in 0..UploadBytes : P4_uploadProgressCallback(sent)
  /\ lastEvent' = Event("uploadProgress")
  /\ UNCHANGED << screen, permVars, logVars >>

\* the request to API_URL settles
UploadSettled ==
  /\ pc = "uploading"
  /\ \E o \in Outcomes :
       /\ CASE screen = "PulseScanScreen" -> PSS_uploaded(o)
            [] screen = "part_004" -> P4_uploaded(o)
            [] OTHER -> P5_uploaded(o)
       /\ lastEvent' = [name |-> "uploadSettled", outcome |-> o]
  /\ UNCHANGED << screen, permVars, logVars >>

\* the variables of the screens the pulse specification leaves at rest
otherVars == << scanVars, appVars, localVars >>

Next ==
  \/ PermissionLoaded /\ UNCHANGED otherVars
  \/ PressGrant /\ UNCHANGED otherVars
  \/ PermissionAnswered /\ UNCHANGED otherVars
  \/ PressOpenSettings /\ UNCHANGED otherVars
  \/ SettingsDialogClosed /\ UNCHANGED otherVars
  \/ PressStart /\ UNCHANGED otherVars
  \/ PressStop /\ UNCHANGED otherVars
  \/ PressReset /\ UNCHANGED otherVars
  \/ RecordResolved /\ UNCHANGED otherVars
  \/ RecordRejected /\ UNCHANGED otherVars
  \/ FileInfoResolved /\ UNCHANGED otherVars
  \/ UploadProgress /\ UNCHANGED otherVars
  \/ UploadSettled /\ UNCHANGED otherVars

Spec == Init /\ [][Next]_vars

\* the camera ends a recording: at maxDuration where recordAsync was given
\* one, after stopRecording() where it was given none
RecordEnds ==
  /\ screen = "part_004" => stopRequested
  /\ (RecordResolved \/ RecordRejected)

\* Spec with what the device guarantees: the permission hook loads, the
\* camera ends a bounded or stopped recording, getInfoAsync answers.  The
\* user's presses and the backend's answer are not guaranteed; no variant
\* arms a timer for the request.
LiveSpec ==
  /\ Spec
  /\ WF_vars(PermissionLoaded)
  /\ WF_vars(RecordEnds)
  /\ WF_vars(FileInfoResolved)

---------------------------------------------------------------------------
(* The scanner screens: src/screens/BarcodeScannerNative.js and the        *)
(* FoodScannerScreen of src/unnamed/part_002                               *)

\* images picked in one run; image is 0 for null, else the number of the pick
MaxPicks == 2
\* presses of "Scan Barcode" / "Analyze Food" in one run
MaxScans == 2

\* .slice(0, 50) in saveResult
HistoryCap == 50

\* s.slice(0, n)
Slice0(s, n) == SubSeq(s, 1, IF Len(s) < n THEN Len(s) ELSE n)

\* const fields = ["file", "image"]
Fields == << "file", "image" >>

\* the response bodies: text that is not JSON, JSON null, a JSON object
\* without foods, one whose foods is no array, one whose foods is an array
ScanBodies == {"notJson", "null", "object", "foodsNotArray", "foods"}
ScanStatuses == {200, 500}
ScanOutcomes ==
  { [kind |-> "networkError", message |-> m] : m \in {NetworkFailure, ""} }
    \cup [kind : {"response"}, status : ScanStatuses, body : ScanBodies]

\* uploadImage tells a JSON body from any other and reads nothing in it;
\* the body of a failure is text
BarcodeOutcomes ==
  { o \in ScanOutcomes :
      o.kind = "response" =>
        /\ o.body \in {"notJson", "object"}
        /\ ~Ok(o.status) => o.body = "notJson" }

\* resp.text() of a body that has not been read
BodyText(b) ==
  CASE b = "notJson" -> "Bad Gateway"
    [] b = "null" -> "null"
    [] b = "object" -> "{}"
    [] b = "foodsNotArray" -> "{\"foods\":\"rice\"}"
    [] OTHER -> "{\"foods\":[]}"

\* a saved scan; when orders the scans in time, of is the image it is of
Scan(field, status, body, when, of) ==
  [field |-> field, status |-> status, body |-> body, when |-> when,
   of |-> of]

\* what an earlier session left under SAVED_BARCODES after n scans
Stored(n) == [i \in 1..n |-> Scan("file", 200, "json", n + 1 - i, 0)]

\* new Date().toISOString() of the next result: later than every stored one
Now == HistoryCap + successes + 1

NoUpload == [pc |-> "none"]
UploadDone == [pc |-> "done"]

\* the runs of uploadImage / uploadToBackend that are waiting for something
InFlight == { t \in DOMAIN uploads : uploads[t].pc \in {"fetch", "save"} }

ScanInit ==
  /\ PulseAtRest /\ AppAtRest /\ LocalAtRest
  /\ screen = "PulseScanScreen" /\ history = << >>
  /\ scanner \in {"barcode", "food"}
  /\ image = 0
  /\ loading = FALSE
  /\ serverResult = Null
  /\ savedFoods = << >>
  /\ analyzing = FALSE
  /\ result = Null
  /\ errorMsg = Null
  /\ storage \in IF scanner = "barcode"
                 THEN {<< >>, Stored(HistoryCap - 1)}
                 ELSE {<< >>}
  /\ loadPending = [value |-> storage, pending |-> scanner = "barcode"]
  /\ uploads = [t \in 1..MaxScans |-> NoUpload]
  /\ picks = 0 /\ scans = 0 /\ requests = 0
  /\ reads = IF scanner = "barcode" THEN 1 ELSE 0
  /\ writes = 0 /\ successes = 0

\* BarcodeScannerNative's mount effect: getItem("SAVED_BARCODES") resolves
BC_loaded ==
  /\ savedFoods' = IF loadPending.value # << >> THEN loadPending.value
                   ELSE savedFoods
  /\ loadPending' = [loadPending EXCEPT !.pending = FALSE]
  /\ stepAlerts' = << >>
  /\ UNCHANGED << scanner, image, loading, serverResult, analyzing, result,
                  errorMsg, storage, uploads, picks, scans, requests, reads,
                  writes, successes >>

\* pickFromGallery / takePhoto from the answer of the permission request
\* on; what is the permission denial, the cancel, the unreadable result,
\* the picked image or the rejection of a picker call
PickHandler(source, what) ==
  /\ IF what = "picked"
     THEN /\ image' = picks + 1
          /\ picks' = picks + 1
          /\ serverResult' = Null
          /\ result' = Null
          /\ errorMsg' = Null
          /\ stepAlerts' = << >>
     ELSE /\ stepAlerts' =
               CASE what = "denied" /\ scanner = "barcode" ->
                      << Alert("Permission required",
                           IF source = "gallery"
                           THEN "Please allow gallery access to choose an image."
                           ELSE "Please allow camera access to take a photo.") >>
                 [] what = "denied" ->
                      << Alert("Permission required",
                           IF source = "gallery"
                           THEN "Please grant gallery access."
                           ELSE "Please grant camera access.") >>
                 [] what = "unreadable" ->
                      IF source = "gallery"
                      THEN << Alert("No image",
                        "Could not read the selected image. Try another image.") >>
                      ELSE << Alert("Camera failed",
                        "Could not capture image. Try again.") >>
                 [] what = "failed" /\ scanner = "barcode" ->
                      << Alert("Error",
                           IF source = "gallery"
                           THEN "Failed to pick image. Try again."
                           ELSE "Failed to take photo. Try again.") >>
                 [] what = "failed" ->
                      << Alert("Error",
                           IF source = "gallery"
                           THEN "Could not pick image. Try again."
                           ELSE "Could not take photo. Try again.") >>
                 [] OTHER -> << >>
          /\ UNCHANGED << image, picks, serverResult, result, errorMsg >>
  /\ UNCHANGED << scanner, loading, savedFoods, analyzing, storage,
                  loadPending, uploads, scans, requests, reads, writes,
                  successes >>

\* BC_saveResult without the slice
BC_saveResult_Unbounded(item, saved) == << item >> \o saved

\* saveResult: newArr for item, where saved is the savedFoods of the render
\* whose uploadImage is running
BC_saveResult(item, saved) == Slice0(<< item >> \o saved, HistoryCap)

\* uploadImage up to the first  await fetch
BC_uploadImage ==
  IF image = 0
  THEN /\ stepAlerts' = << Alert("No image selected",
            "Tap 'Choose Image' to pick or take a barcode photo.") >>
       /\ UNCHANGED << loading, serverResult, uploads, scans, requests >>
  ELSE /\ loading' = TRUE
       /\ serverResult' = Null
       /\ scans' = scans + 1
       /\ uploads' = [uploads EXCEPT ![scans + 1] =
            [pc |-> "fetch", field |-> 1, image |-> image,
             saved |-> savedFoods]]
       /\ requests' = requests + 1
       /\ stepAlerts' = << >>

\* BC_attemptFailed without the second field
BC_attemptFailed_OneField(t, m) ==
  /\ uploads' = [uploads EXCEPT ![t] = UploadDone]
  /\ loading' = FALSE
  /\ stepAlerts' = << Alert("Upload failed",
                            IF m # "" THEN m ELSE "Unknown error") >>
  /\ UNCHANGED << serverResult, savedFoods, storage, requests, writes,
                  successes >>

\* uploadImage of run t: the attempt has failed and lastError is an error of
\* message m; the loop goes on to the next field, where lastError is set
\* anew before it is read, or ends and lastError is thrown
BC_attemptFailed(t, m) ==
  IF uploads[t].field < Len(Fields)
  THEN /\ uploads' = [uploads EXCEPT ![t].field = @ + 1]
       /\ requests' = requests + 1
       /\ stepAlerts' = << >>
       /\ UNCHANGED << loading, serverResult, savedFoods, storage, writes,
                       successes >>
  ELSE /\ uploads' = [uploads EXCEPT ![t] = UploadDone]
       /\ loading' = FALSE
       /\ stepAlerts' = << Alert("Upload failed",
                                 IF m # "" THEN m ELSE "Unknown error") >>
       /\ UNCHANGED << serverResult, savedFoods, storage, requests, writes,
                       successes >>

\* uploadImage of run t: a 2xx response; saveResult runs up to its
\* await setItem  (the storage takes every write)
BC_responded(t, o) ==
  LET out == Scan(Fields[uploads[t].field], o.status,
                  IF o.body = "notJson" THEN "rawText" ELSE "json",
                  Now, uploads[t].image)
      newArr == BC_saveResult(out, uploads[t].saved)
  IN /\ serverResult' = out
     /\ savedFoods' = newArr
     /\ storage' = newArr
     /\ writes' = writes + 1
     /\ successes' = successes + 1
     /\ uploads' = [uploads EXCEPT ![t].pc = "save"]
     /\ stepAlerts' = << >>
     /\ UNCHANGED << loading, requests >>

\* uploadImage of run t: its fetch has settled with o
BC_fetchSettled(t, o) ==
  IF o.kind = "networkError" THEN BC_attemptFailed(t, o.message)
  ELSE IF Ok(o.status) THEN BC_responded(t, o)
  ELSE BC_attemptFailed(t, "status " \o NatToString(o.status) \o ": "
                             \o BodyText(o.body))

\* uploadImage of run t: saveResult has returned
BC_saved(t) ==
  /\ loading' = FALSE
  /\ uploads' = [uploads EXCEPT ![t] = UploadDone]
  /\ stepAlerts' = << >>
  /\ UNCHANGED << serverResult, savedFoods, storage, requests, writes,
                  successes >>

\* clearSelection
BC_clearSelection ==
  /\ image' = 0
  /\ serverResult' = Null

\* uploadToBackend up to  await fetch
FD_uploadToBackend ==
  IF image = 0
  THEN /\ stepAlerts' = << Alert("No image", "Pick or take a photo first.") >>
       /\ UNCHANGED << analyzing, result, errorMsg, uploads, scans, requests >>
  ELSE /\ analyzing' = TRUE
       /\ result' = Null
       /\ errorMsg' = Null
       /\ scans' = scans + 1
       /\ uploads' = [uploads EXCEPT ![scans + 1] =
            [pc |-> "fetch", field |-> 2, image |-> image,
             saved |-> << >>]]
       /\ requests' = requests + 1
       /\ stepAlerts' = << >>

\* FD_uploadError without the test of parsed.foods
FD_uploadError_AnyShape(o) ==
  IF o.kind = "networkError" THEN Str(o.message)
  ELSE IF ~Ok(o.status)
    THEN Str("Server returned " \o NatToString(o.status) \o ": "
               \o BodyText(o.body))
  ELSE IF o.body = "notJson" THEN Str("Server returned non-JSON response: ")
  ELSE Null

\* uploadToBackend after the fetch: the error thrown for outcome o, or Null
\* when none is thrown (resp.text() of a body resp.json() has read rejects)
FD_uploadError(o) ==
  IF o.kind = "networkError" THEN Str(o.message)
  ELSE IF ~Ok(o.status)
    THEN Str("Server returned " \o NatToString(o.status) \o ": "
               \o BodyText(o.body))
  ELSE IF o.body = "notJson" THEN Str("Server returned non-JSON response: ")
  ELSE IF o.body # "foods" THEN Str("Unexpected response shape from server")
  ELSE Null

\* uploadToBackend of run t: its fetch has settled with o
FD_fetchSettled(t, o) ==
  /\ analyzing' = FALSE
  /\ uploads' = [uploads EXCEPT ![t] = UploadDone]
  /\ IF FD_uploadError(o) # Null
     THEN /\ errorMsg' = Or(FD_uploadError(o), Str("Upload failed"))
          /\ stepAlerts' = << Alert("Upload failed",
               Or(FD_uploadError(o), Str("Unknown error")).v) >>
          /\ UNCHANGED << result, successes >>
     ELSE /\ result' = [body |-> o.body, of |-> uploads[t].image]
          /\ successes' = successes + 1
          /\ stepAlerts' = << >>
          /\ UNCHANGED errorMsg

\* the onPress of the food screen's "Reset"
FD_reset ==
  /\ image' = 0
  /\ result' = Null
  /\ errorMsg' = Null

\* the variables of the screens the scanner specification leaves at rest
notScanVars == << pulseVars, appVars, localVars >>

\* the mount effect's read is delivered
SavedLoaded ==
  /\ loadPending.pending
  /\ BC_loaded
  /\ lastEvent' = Event("savedLoaded")
  /\ UNCHANGED notScanVars

\* "Choose Image" / "Gallery" or "Take Photo" is pressed and the picker ends
PickImage ==
  /\ picks < MaxPicks
  /\ \E source \in {"gallery", "camera"} :
       \E what \in {"denied", "cancelled", "unreadable", "picked", "failed"} :
         /\ PickHandler(source, what)
         /\ lastEvent' = [name |-> "pick", what |-> what]
  /\ UNCHANGED notScanVars

\* "Scan Barcode" is pressed: the button is rendered whenever an image is
\* selected
PressScan ==
  /\ scanner = "barcode"
  /\ image # 0
  /\ scans < MaxScans
  /\ BC_uploadImage
  /\ lastEvent' = [name |-> "pressScan", inFlight |-> Cardinality(InFlight)]
  /\ UNCHANGED << scanner, image, savedFoods, analyzing, result, errorMsg,
                  storage, loadPending, picks, reads, writes, successes >>
  /\ UNCHANGED notScanVars

\* "Clear" is pressed
PressClear ==
  /\ scanner = "barcode"
  /\ image # 0
  /\ BC_clearSelection
  /\ lastEvent' = Event("pressClear")
  /\ stepAlerts' = << >>
  /\ UNCHANGED << scanner, loading, savedFoods, analyzing, result, errorMsg,
                  storage, loadPending, uploads, picks, scans, requests,
                  reads, writes, successes >>
  /\ UNCHANGED notScanVars

\* a fetch of uploadImage settles
ScanSettled ==
  /\ scanner = "barcode"
  /\ \E t \in InFlight :
       /\ uploads[t].pc = "fetch"
       /\ \E o \in BarcodeOutcomes :
            /\ BC_fetchSettled(t, o)
            /\ lastEvent' = [name |-> "scanSettled", upload |-> t,
                             field |-> uploads[t].field, outcome |-> o,
                             alone |-> (InFlight = {t})]
  /\ UNCHANGED << scanner, image, analyzing, result, errorMsg, loadPending,
                  picks, scans, reads >>
  /\ UNCHANGED notScanVars

\* the setItem of saveResult resolves
SaveSettled ==
  /\ scanner = "barcode"
  /\ \E t \in InFlight :
       /\ uploads[t].pc = "save"
       /\ BC_saved(t)
       /\ lastEvent' = [name |-> "saveSettled", upload |-> t]
  /\ UNCHANGED << scanner, image, analyzing, result, errorMsg, loadPending,
                  picks, scans, reads >>
  /\ UNCHANGED notScanVars

\* "Analyze Food" is pressed: the button is disabled without an image and
\* while analyzing
PressAnalyze ==
  /\ scanner = "food"
  /\ image # 0 /\ ~analyzing
  /\ scans < MaxScans
  /\ FD_uploadToBackend
  /\ lastEvent' = [name |-> "pressAnalyze", inFlight |-> Cardinality(InFlight)]
  /\ UNCHANGED << scanner, image, loading, serverResult, savedFoods, storage,
                  loadPending, picks, reads, writes, successes >>
  /\ UNCHANGED notScanVars

\* the food screen's "Reset" is pressed
PressFoodReset ==
  /\ scanner = "food"
  /\ FD_reset
  /\ lastEvent' = Event("pressFoodReset")
  /\ stepAlerts' = << >>
  /\ UNCHANGED << scanner, loading, serverResult, savedFoods, analyzing,
                  storage, loadPending, uploads, picks, scans, requests,
                  reads, writes, successes >>
  /\ UNCHANGED notScanVars

\* the fetch of uploadToBackend settles
AnalyzeSettled ==
  /\ scanner = "food"
  /\ \E t \in InFlight :
       \E o \in ScanOutcomes :
         /\ FD_fetchSettled(t, o)
         /\ lastEvent' = [name |-> "analyzeSettled", upload |-> t,
                          outcome |-> o]
  /\ UNCHANGED << scanner, image, loading, serverResult, savedFoods, storage,
                  loadPending, picks, scans, requests, reads, writes >>
  /\ UNCHANGED notScanVars

ScanNext ==
  \/ SavedLoaded
  \/ PickImage
  \/ PressScan
  \/ PressClear
  \/ ScanSettled
  \/ SaveSettled
  \/ PressAnalyze
  \/ PressFoodReset
  \/ AnalyzeSettled

allVars == << vars, scanVars, appVars, localVars >>

ScanSpec == ScanInit /\ [][ScanNext]_allVars

\* the food screen alone
FoodInit == ScanInit /\ scanner = "food"

FoodNext ==
  \/ PickImage
  \/ PressAnalyze
  \/ PressFoodReset
  \/ AnalyzeSettled

FoodSpec == FoodInit /\ [][FoodNext]_allVars

---------------------------------------------------------------------------
(* The navigator of App (src/App.js, src/unnamed/part_000 and part_001),   *)
(* HomeScreen, InstructionsScreen and the chat of AyurvedaBotScreen        *)

\* runs of sendMessage past its guard in one run
MaxSends == 2

Apps == {"App.js", "part_000", "part_001"}

\* the names of the Stack.Screen elements of App
Registered(a) ==
  IF a = "part_000"
  THEN {"Home", "Instructions", "PulseScan", "AyurvedaBot"}
  ELSE {"Home", "Instructions", "AyurvedaBot", "BarcodeScannerNative",
        "FoodScanner"}

\* the buttons of HomeScreen and what their onPress navigates to; "" for
\* the buttons that only alert
HomeButtons ==
  { [label |-> "Check Pulse", target |-> "Instructions"],
    [label |-> "Ayurveda Bot", target |-> "AyurvedaBot"],
    [label |-> "Bar Code Scanner", target |-> ""],
    [label |-> "Food Scanner", target |-> ""],
    [label |-> "Mental Health", target |-> ""] }

\* the route on top of the stack
Focused == routes[Len(routes)]

\* the texts of the input box
Inputs == {"", " ", "hi", " hi "}

RECURSIVE TrimStart(_)
TrimStart(s) ==
  IF Len(s) > 0 /\ SubSeq(s, 1, 1) = " "
  THEN TrimStart(SubSeq(s, 2, Len(s))) ELSE s

RECURSIVE TrimEnd(_)
TrimEnd(s) ==
  IF Len(s) > 0 /\ SubSeq(s, Len(s), Len(s)) = " "
  THEN TrimEnd(SubSeq(s, 1, Len(s) - 1)) ELSE s

\* String.prototype.trim
Trim(s) == TrimEnd(TrimStart(s))

Message(role, content) == [role |-> role, content |-> content]

NoReply == "No reply from server."
ConnectFailed == "Failed to connect to the bot."

\* how the fetch of sendMessage settles, and what response.json() gives
ChatStatuses == {200, 500}
ChatBodies == {"notJson", "null", "noReply", "reply"}

\* useState of a mounted AyurvedaBotScreen
ChatMounted ==
  /\ input = ""
  /\ messages = << >>
  /\ chatLoading = FALSE
  /\ chatPc = "idle"

AppInit ==
  /\ PulseAtRest /\ ScanAtRest /\ LocalAtRest
  /\ screen = "PulseScanScreen" /\ history = << >>
  /\ app \in Apps
  /\ routes = << "Home" >>
  /\ ChatMounted
  /\ timers = {}
  /\ sends = 0

\* navigation.navigate(name): a name that is not registered is handled by
\* no navigator and nothing changes; the focused route's name does nothing;
\* a route of that name in the stack is gone back to; else one is pushed
Navigate(name) ==
  IF name \notin Registered(app) \/ name = Focused THEN UNCHANGED routes
  ELSE IF \E i \in 1..Len(routes) : routes[i] = name
    THEN routes' = SubSeq(routes, 1,
                     CHOOSE i \in 1..Len(routes) : routes[i] = name)
  ELSE routes' = Append(routes, name)

\* the catch block of sendMessage without its setMessages
SendFailed_Silent ==
  /\ UNCHANGED messages
  /\ chatLoading' = FALSE
  /\ chatPc' = "idle"

\* the catch and finally blocks of sendMessage
SendFailed ==
  /\ messages' = Append(messages, Message("assistant", ConnectFailed))
  /\ chatLoading' = FALSE
  /\ chatPc' = "idle"

\* sendMessage up to  await fetch
sendMessage ==
  IF Trim(input) = "" \/ chatLoading
  THEN UNCHANGED << input, messages, chatLoading, chatPc, timers, sends >>
  ELSE /\ messages' = Append(messages, Message("user", input))
       /\ input' = ""
       /\ chatLoading' = TRUE
       /\ timers' = timers \cup {sends + 1}
       /\ sends' = sends + 1
       /\ chatPc' = "fetch"

\* sendMessage: the fetch rejects
FetchRejected ==
  /\ SendFailed
  /\ UNCHANGED timers

\* sendMessage: the fetch resolves with a response of this status
FetchResolved(status) ==
  /\ timers' = timers \ {sends}
  /\ IF ~Ok(status) THEN SendFailed
     ELSE /\ chatPc' = "json"
          /\ UNCHANGED << messages, chatLoading >>

\* sendMessage: response.json() settles; it rejects for a body that is not
\* JSON, and data.reply throws for null
JsonRead(body) ==
  IF body \in {"notJson", "null"} THEN SendFailed
  ELSE /\ messages' = Append(messages,
            Message("assistant", IF body = "reply" THEN "reply" ELSE NoReply))
       /\ chatLoading' = FALSE
       /\ chatPc' = "idle"

\* the variables of the screens the navigator specification leaves at rest
notAppVars == << pulseVars, scanVars, localVars >>

\* a button of HomeScreen is pressed
PressHome ==
  /\ Focused = "Home"
  /\ \E b \in HomeButtons :
       IF b.target # ""
       THEN /\ Navigate(b.target)
            /\ lastEvent' = [name |-> "navigate", from |-> "Home",
                             target |-> b.target]
            /\ stepAlerts' = << >>
       ELSE /\ UNCHANGED routes
            /\ lastEvent' = [name |-> "pressHome", label |-> b.label]
            /\ stepAlerts' = << Alert("Alert", "Coming soon") >>
  /\ UNCHANGED << app, input, messages, chatLoading, chatPc, timers, sends >>
  /\ UNCHANGED notAppVars

\* "Continue" of InstructionsScreen is pressed
PressContinue ==
  /\ Focused = "Instructions"
  /\ Navigate("PulseScan")
  /\ lastEvent' = [name |-> "navigate", from |-> "Instructions",
                   target |-> "PulseScan"]
  /\ stepAlerts' = << >>
  /\ UNCHANGED << app, input, messages, chatLoading, chatPc, timers, sends >>
  /\ UNCHANGED notAppVars

\* the header's back button: the focused screen is unmounted, and a
\* sendMessage that is awaiting has no component left to update
GoBack ==
  /\ Len(routes) > 1
  /\ routes' = SubSeq(routes, 1, Len(routes) - 1)
  /\ IF Focused = "AyurvedaBot"
     THEN /\ input' = "" /\ messages' = << >>
          /\ chatLoading' = FALSE /\ chatPc' = "idle"
     ELSE UNCHANGED << input, messages, chatLoading, chatPc >>
  /\ lastEvent' = [name |-> "goBack", from |-> Focused]
  /\ stepAlerts' = << >>
  /\ UNCHANGED << app, timers, sends >>
  /\ UNCHANGED notAppVars

\* the text of the input box is changed; the box is not editable while
\* loading
ChangeText ==
  /\ Focused = "AyurvedaBot"
  /\ ~chatLoading
  /\ \E t \in Inputs : input' = t
  /\ lastEvent' = Event("changeText")
  /\ stepAlerts' = << >>
  /\ UNCHANGED << app, routes, messages, chatLoading, chatPc, timers, sends >>
  /\ UNCHANGED notAppVars

\* "Send" is pressed; the button is disabled while loading
PressSend ==
  /\ Focused = "AyurvedaBot"
  /\ ~chatLoading
  /\ sends < MaxSends
  /\ sendMessage
  /\ lastEvent' = [name |-> "pressSend", text |-> input]
  /\ stepAlerts' = << >>
  /\ UNCHANGED << app, routes >>
  /\ UNCHANGED notAppVars

\* the fetch of the running sendMessage settles
ChatFetchSettled ==
  /\ chatPc = "fetch"
  /\ \/ /\ FetchRejected
        /\ lastEvent' = [name |-> "chatSettled", how |-> "networkError"]
     \/ \E status \in ChatStatuses :
          /\ FetchResolved(status)
          /\ lastEvent' = [name |-> "chatResponded", status |-> status]
  /\ stepAlerts' = << >>
  /\ UNCHANGED << app, routes, input, sends >>
  /\ UNCHANGED notAppVars

\* response.json() of the running sendMessage settles
ChatJsonSettled ==
  /\ chatPc = "json"
  /\ \E body \in ChatBodies :
       /\ JsonRead(body)
       /\ lastEvent' = [name |-> "chatSettled", how |-> body]
  /\ stepAlerts' = << >>
  /\ UNCHANGED << app, routes, input, timers, sends >>
  /\ UNCHANGED notAppVars

\* the 50 s timer of send k fires: controller.abort() rejects the fetch of
\* that send if it is still pending, and does nothing otherwise
TimerFires ==
  /\ \E k \in timers :
       /\ timers' = timers \ {k}
       /\ IF k = sends /\ chatPc = "fetch"
          THEN SendFailed
          ELSE UNCHANGED << messages, chatLoading, chatPc >>
       /\ lastEvent' = [name |-> "timerFired", send |-> k,
                        aborted |-> (k = sends /\ chatPc = "fetch")]
  /\ stepAlerts' = << >>
  /\ UNCHANGED << app, routes, input, sends >>
  /\ UNCHANGED notAppVars

AppNext ==
  \/ PressHome
  \/ PressContinue
  \/ GoBack
  \/ ChangeText
  \/ PressSend
  \/ ChatFetchSettled
  \/ ChatJsonSettled
  \/ TimerFires

AppSpec == AppInit /\ [][AppNext]_allVars

---------------------------------------------------------------------------
(* The locally computing PulseScreen of src/unnamed/part_005 (lines 1-161) *)

\* interval callbacks in one scan
MaxTicks == 3
\* scans in one run
MaxLocalScans == 2

\* the results of calculateBpm: the fallback and a computed rate
LocalRates == {70, 72}

LocalInit ==
  /\ PulseAtRest /\ ScanAtRest /\ AppAtRest
  /\ screen = "part_005"
  /\ history \in {<< >>, << 65 >>}
  /\ hasPermission = "null"
  /\ scanning = FALSE
  /\ arrays = << >>
  /\ historyHook = 0
  /\ historyLoad = [pc |-> "none", value |-> << >>]
  /\ scanHistory = << >>
  /\ torch = FALSE
  /\ interval = FALSE
  /\ shots = << >>
  /\ elapsed = FALSE
  /\ ticks = 0 /\ scanEnds = 0 /\ localScans = 0

\* the mount effect after  await Camera.requestCameraPermissionsAsync():
\* loadHistory runs up to its  await getItem
PP_permissionAnswered(granted) ==
  /\ hasPermission' = IF granted THEN "true" ELSE "false"
  /\ historyLoad' = [pc |-> "pending", value |-> history]

\* loadHistory after its await: JSON.parse makes a new array
PP_loadHistory ==
  /\ IF historyLoad.value # << >>
     THEN /\ arrays' = Append(arrays, historyLoad.value)
          /\ historyHook' = Len(arrays) + 1
     ELSE UNCHANGED << arrays, historyHook >>
  /\ historyLoad' = [historyLoad EXCEPT !.pc = "done"]

\* saveBpm of the render scan k was started in: the spread copies the
\* object, not the array of the current date, so push changes that array
\* wherever it is held; without one a new array is made
PP_saveBpm(k, newBpm) ==
  IF scanHistory[k] # 0
  THEN /\ arrays' = [arrays EXCEPT ![scanHistory[k]] = Append(@, newBpm)]
       /\ historyHook' = scanHistory[k]
       /\ history' = Append(arrays[scanHistory[k]], newBpm)
  ELSE /\ arrays' = Append(arrays, << newBpm >>)
       /\ historyHook' = Len(arrays) + 1
       /\ history' = << newBpm >>

\* startScan and the alert's Continue: startPPGScan
PP_startPPGScan ==
  /\ scanning' = TRUE
  /\ torch' = TRUE
  /\ interval' = TRUE
  /\ elapsed' = FALSE
  /\ ticks' = 0
  /\ scanEnds' = 0
  /\ scanHistory' = Append(scanHistory, historyHook)
  /\ shots' = Append(shots, 0)
  /\ localScans' = localScans + 1

\* the interval callback up to  await takePictureAsync
PP_tick ==
  /\ ticks' = ticks + 1
  /\ shots' = [shots EXCEPT ![localScans] = @ + 1]

\* the interval callback of scan k after its await: the "Stop after 20
\* seconds" block when the time is up; an earlier scan's interval has been
\* cleared before
PP_pictureTaken(k, rate) ==
  /\ shots' = [shots EXCEPT ![k] = @ - 1]
  /\ IF elapsed
     THEN /\ interval' = (k # localScans /\ interval)
          /\ torch' = FALSE
          /\ bpm' = Num(rate)
          /\ PP_saveBpm(k, rate)
          /\ scanning' = FALSE
          /\ scanEnds' = scanEnds + 1
     ELSE UNCHANGED << interval, torch, bpm, arrays, historyHook, history,
                       scanning, scanEnds >>

\* the variables the PulseScreen specification leaves as they are
notLocalVars ==
  << screen, permVars, isRecording, isProcessing, isUploading, error,
     uploadProgress, showCamera, taskVars, starts, scanVars, appVars >>

\* the permission request of the mount effect is answered
LocalPermissionAnswered ==
  /\ hasPermission = "null"
  /\ \E granted \in BOOLEAN :
       /\ PP_permissionAnswered(granted)
       /\ lastEvent' = [name |-> "permissionAnswered", granted |-> granted]
  /\ stepAlerts' = << >>
  /\ UNCHANGED << scanning, arrays, historyHook, scanHistory, torch, interval,
                  shots, elapsed, ticks, scanEnds, localScans, bpm, history >>
  /\ UNCHANGED notLocalVars

\* the getItem of loadHistory resolves
LocalHistoryLoaded ==
  /\ historyLoad.pc = "pending"
  /\ PP_loadHistory
  /\ lastEvent' = Event("historyLoaded")
  /\ stepAlerts' = << >>
  /\ UNCHANGED << hasPermission, scanning, scanHistory, torch, interval,
                  shots, elapsed, ticks, scanEnds, localScans, bpm, history >>
  /\ UNCHANGED notLocalVars

\* "Measure Now" is pressed and then "Continue" in the alert
PressMeasureNow ==
  /\ hasPermission = "true"
  /\ ~scanning /\ ~Truthy(bpm)
  /\ localScans < MaxLocalScans
  /\ PP_startPPGScan
  /\ lastEvent' = Event("pressMeasureNow")
  /\ stepAlerts' = << Alert("Instructions",
       "Place your finger over the camera and flash. Press Continue when ready.") >>
  /\ UNCHANGED << hasPermission, arrays, historyHook, historyLoad, bpm,
                  history >>
  /\ UNCHANGED notLocalVars

\* "Measure Again" is pressed
PressMeasureAgain ==
  /\ hasPermission = "true"
  /\ Truthy(bpm)
  /\ bpm' = Null
  /\ lastEvent' = Event("pressMeasureAgain")
  /\ stepAlerts' = << >>
  /\ UNCHANGED << localVars, history >>
  /\ UNCHANGED notLocalVars

\* 100 ms have passed and the interval callback runs
IntervalTick ==
  /\ interval
  /\ ticks < MaxTicks
  /\ PP_tick
  /\ lastEvent' = Event("tick")
  /\ stepAlerts' = << >>
  /\ UNCHANGED << hasPermission, scanning, arrays, historyHook, historyLoad,
                  scanHistory, torch, interval, elapsed, scanEnds,
                  localScans, bpm, history >>
  /\ UNCHANGED notLocalVars

\* 20000 ms have passed since startTime
TimeIsUp ==
  /\ scanning /\ ~elapsed
  /\ elapsed' = TRUE
  /\ lastEvent' = Event("timeIsUp")
  /\ stepAlerts' = << >>
  /\ UNCHANGED << hasPermission, scanning, arrays, historyHook, historyLoad,
                  scanHistory, torch, interval, shots, ticks, scanEnds,
                  localScans, bpm, history >>
  /\ UNCHANGED notLocalVars

\* a takePictureAsync resolves
PictureTaken ==
  /\ \E k \in 1..localScans :
       /\ shots[k] > 0
       /\ \E rate \in LocalRates :
            /\ PP_pictureTaken(k, rate)
            /\ lastEvent' = [name |-> "pictureTaken", scan |-> k,
                             ends |-> elapsed,
                             rate |-> IF elapsed THEN rate ELSE 0]
  /\ stepAlerts' = << >>
  /\ UNCHANGED << hasPermission, historyLoad, scanHistory, elapsed, ticks,
                  localScans >>
  /\ UNCHANGED notLocalVars

LocalNext ==
  \/ LocalPermissionAnswered
  \/ LocalHistoryLoaded
  \/ PressMeasureNow
  \/ PressMeasureAgain
  \/ IntervalTick
  \/ TimeIsUp
  \/ PictureTaken

LocalSpec == LocalInit /\ [][LocalNext]_allVars

---------------------------------------------------------------------------
(* Properties *)

\* the views that offer a way to the permission: the "Grant Permission"
\* button, the "Open Settings" button, the pointer to the system settings
PermissionPaths == {"grant", "settings", "rationale"}

\* C1 as stated: in every permission state, the not yet loaded one
\* included, a recording exists only under a granted permission, and
\* without one isRecording, bpm and error keep their mount values, no
\* start control is offered and a grant or settings path is shown.
C1_AsStated ==
  /\ (isRecording \/ recording) => Granted(permission)
  /\ ~Granted(permission) =>
       /\ ~isRecording /\ bpm = Null /\ error = Null
       /\ ~StartShown
       /\ View \in PermissionPaths

\* C1 amended: a start moves the screen into Recording only under a
\* granted permission; under an undetermined, denied or blocked one
\* isRecording, bpm and error keep their mount values, no start control
\* is offered and a grant or settings path is shown; while the permission
\* is still loading the screen is blank.
C1_StartOnlyWhenGranted ==
  /\ (isRecording \/ recording) => Granted(permission)
  /\ ~Granted(permission) =>
       /\ ~isRecording /\ bpm = Null /\ error = Null
       /\ ~StartShown
       /\ recordCalls = 0
  /\ permission \in {"undetermined", "denied", "blocked"} =>
       View \in PermissionPaths
  /\ permission = "loading" => View = "blank"

\* a denial, then a grant, then a start that began to record
C1_Witness ==
  /\ wasDenied
  /\ lastEvent.name = "pressStart"
  /\ isRecording /\ recording

\* C2: the torch is lit exactly while a recordAsync call is outstanding.
C2_TorchIffRecording == TorchOn <=> recording

\* C3: whichever way a recording has ended (maxDuration, stopRecording, a
\* capture exception), the torch is off after the step that ended it and
\* stays off while no recording runs.
C3_TorchOffAfterRecording ==
  /\ lastEvent.name \in {"recordResolved", "recordRejected"} => ~TorchOn
  /\ (recordCalls > 0 /\ ~recording) => ~TorchOn

FailureStep ==
  \/ /\ lastEvent.name = "recordRejected"
     /\ ~(lastEvent.stopped /\ lastEvent.message \in AbortMessages)
  \/ lastEvent.name = "recordResolved" /\ ~lastEvent.video.uri
  \/ lastEvent.name = "fileInfo" /\ ~lastEvent.exists
  \/ /\ lastEvent.name = "uploadSettled"
     /\ \/ lastEvent.outcome.kind = "networkError"
        \/ ~Ok(lastEvent.outcome.response.status)
        \/ ~lastEvent.outcome.response.body.json
        \/ lastEvent.outcome.response.body.bpm = Undefined

\* C5: every capture or upload failure is handled with exactly one alert
\* and leaves a non-null error that is shown inline.
C5_OneAlertAndErrorState ==
  FailureStep =>
    /\ Len(stepAlerts) = 1
    /\ error # Null
    /\ ErrorShown

\* the last step was recordAsync rejecting with the abort of a recording
\* the user had stopped
AbortStep ==
  /\ lastEvent.name = "recordRejected"
  /\ lastEvent.stopped
  /\ lastEvent.message \in AbortMessages

\* C6: the abort with which a stopped recording rejects raises no alert and
\* leaves error null, so no error is shown.
C6_AbortSuppressed ==
  AbortStep => (stepAlerts = << >> /\ error = Null /\ ~ErrorShown)

\* a stopped recording has rejected with "Aborted"
C6_Witness == AbortStep /\ lastEvent.message = "Aborted"

\* the last step was the backend answering 200 with the JSON bpm 72
SuccessStep ==
  /\ lastEvent.name = "uploadSettled"
  /\ lastEvent.outcome.kind = "response"
  /\ lastEvent.outcome.response.status = 200
  /\ lastEvent.outcome.response.body.json
  /\ lastEvent.outcome.response.body.bpm = Num(72)

\* C7: after a 200 response with bpm 72 the screen holds bpm 72, renders
\* "72 BPM", and 72 is the last entry of the history of the current date.
C7_ResultRenderedAndSaved ==
  SuccessStep =>
    /\ bpm = Num(72)
    /\ ResultShown
    /\ ResultText = "72 BPM"
    /\ history # << >>
    /\ history[Len(history)] = 72

\* e is the backend answering 500 with the JSON detail "decode error"
DecodeError500(e) ==
  /\ e.name = "uploadSettled"
  /\ e.outcome.kind = "response"
  /\ e.outcome.response.status = 500
  /\ e.outcome.response.body.json
  /\ e.outcome.response.body.detail = Str("decode error")

\* C8: a 500 response with detail "decode error" ends the cycle failed:
\* bpm is null, error contains "decode error" and is shown, nothing is busy
\* and the history is as it was.
C8_ServerDetailReported ==
  [][ DecodeError500(lastEvent') =>
        /\ bpm' = Null
        /\ error'.t = "string"
        /\ Includes(error'.v, "decode error")
        /\ ErrorShown'
        /\ pc' = "idle"
        /\ ~isRecording' /\ ~isProcessing' /\ ~isUploading'
        /\ history' = history ]_vars

\* the backend has answered 500 {"detail": "decode error"}
C8_Witness ==
  /\ DecodeError500(lastEvent)
  /\ lastEvent.outcome.response.body.bpm = Undefined
  /\ lastEvent.outcome.response.body.message = Undefined

\* C9: after a 200 response whose JSON body has no bpm, error is set, bpm
\* is null and no result is rendered.
C9_MissingBpmIsFailure ==
  ( /\ lastEvent.name = "uploadSettled"
    /\ lastEvent.outcome.kind = "response"
    /\ lastEvent.outcome.response.status = 200
    /\ lastEvent.outcome.response.body.json
    /\ lastEvent.outcome.response.body.bpm = Undefined )
  => (error # Null /\ bpm = Null /\ ~ResultShown)

\* the report C10 asks for outcome o
ExpectedReport(o) ==
  CASE o.kind = "networkError" -> "network"
    [] ~Ok(o.response.status) -> "server"
    [] ~o.response.body.json -> "malformed"
    [] o.response.body.bpm = Undefined -> "missing"
    [] OTHER -> "success"

\* the report the screen's error message makes
ReportedAs ==
  CASE error = Null -> "success"
    [] error.v = NetworkFailure -> "network"
    [] error.v = JsonSyntaxError -> "malformed"
    [] Includes(error.v, "Server returned invalid response") -> "malformed"
    [] error.v = "No BPM data in response" -> "missing"
    [] OTHER -> "server"

\* C10: a non-2xx status is reported as a server error whatever the body,
\* every 2xx status counts as success, a 2xx body that is not JSON is
\* reported as malformed, and only a parsed 2xx body without bpm is
\* reported as a missing result.
C10_DistinctFailures ==
  lastEvent.name = "uploadSettled" =>
    /\ ReportedAs = ExpectedReport(lastEvent.outcome)
    /\ ExpectedReport(lastEvent.outcome) = "success" =>
         bpm = lastEvent.outcome.response.body.bpm

\* the values of the state hooks at mount
MountState ==
  /\ ~isRecording /\ ~isProcessing /\ ~isUploading
  /\ bpm = Null /\ error = Null
  /\ uploadProgress = ""
  /\ showCamera

\* C11: after "Measure Again" / "Try Again", pressed on a result or on a
\* failure, the state hooks have their mount values, nothing is running,
\* the start control is offered again, and running the reset handler once
\* more changes nothing.
C11_ResetToMount ==
  lastEvent.name = "pressReset" =>
    /\ MountState
    /\ pc = "idle" /\ ~recording
    /\ CameraMounted /\ StartShown /\ ~ResetShown
    /\ ENABLED (ResetHandler /\ UNCHANGED uiVars)

\* "Try Again" was pressed after a failed upload
C11_Witness ==
  /\ lastEvent.name = "pressReset"
  /\ lastEvent.after = "failure"
  /\ uploadCalls = 1

\* C12: once a measurement cycle has ended, with a result or with a
\* failure, no video file it recorded is left in the cache directory.
C12_TempFileReleased == pc = "idle" => tempFiles = 0

\* something of the cycle is shown as running
Busy == isRecording \/ isProcessing \/ isUploading

\* C13: an upload that has begun ends, by an answer or by a timeout, so the
\* cycle leaves the busy state.
C13_UploadTimesOut == (pc = "uploading") ~> (pc = "idle" /\ ~Busy)

\* C14: the recording flag and the upload flag are never both true.
C14_RecordingXorUploading ==
  ~(isRecording /\ (isProcessing \/ isUploading))

\* C15: while isProcessing is true the card shows the progress branch and
\* not the recording branch, and the "Stop Recording" button is rendered
\* only while the camera records.
C15_ProgressCardWhileProcessing ==
  /\ isProcessing => (ProgressShown /\ ~StopShown)
  /\ StopShown => recording

\* C16: a running recording can end by itself after its fixed duration and
\* the user is offered a stop control for it.
C16_AutoEndAndStopAvailable ==
  (recording /\ ~stopRequested) => (StopShown /\ ENABLED RecordResolved)

\* C17: when getInfoAsync reports the recorded file missing or of size 0,
\* no request is sent and the cycle ends with an error.
C17_EmptyFileNotUploaded ==
  (lastEvent.name = "fileInfo" /\ (~file.exists \/ file.size = 0)) =>
    /\ pc = "idle"
    /\ uploadCalls < recordCalls
    /\ error # Null
    /\ ~Busy

\* C18: requestPermission() is called without a press only for an
\* undetermined permission, never after a denial.
C18_AutoRequestOnlyUndetermined ==
  permRequest = "effect" => (permission = "undetermined" /\ ~wasDenied)

\* C19: under a permanently denied permission the screen shows the
\* rationale with at most the way to the system settings: no control that
\* calls requestPermission(), no pending request, no start control and no
\* recording.
C19_BlockedOffersSettingsOnly ==
  permission = "blocked" =>
    /\ View \in {"settings", "rationale"}
    /\ permRequest = "none"
    /\ ~StartShown
    /\ ~recording /\ pc = "idle"

\* C20: every recordAsync call is made by a press of the start control and
\* every request by the recording of its own cycle, each at most once: a
\* step makes at most one call, only a press of start calls recordAsync,
\* only the handler that awaited the recording sends a request, nothing is
\* called between two cycles, and there are never more requests than
\* recordings nor more recordings than presses.
C20_NoAutomaticRetry ==
  /\ [](recordCalls <= starts /\ uploadCalls <= recordCalls)
  /\ [][ /\ recordCalls' # recordCalls =>
              /\ recordCalls' = recordCalls + 1
              /\ starts' = starts + 1
         /\ uploadCalls' # uploadCalls =>
              /\ uploadCalls' = uploadCalls + 1
              /\ lastEvent'.name \in {"recordResolved", "fileInfo"}
              /\ pc \in {"recording", "fileInfo"}
         /\ (pc = "idle" /\ pc' = "idle") =>
              (recordCalls' = recordCalls /\ uploadCalls' = uploadCalls)
       ]_vars

\* the upload of a second cycle, which recorded its own video, has failed
C20_Witness ==
  /\ FailureStep
  /\ lastEvent.name = "uploadSettled"
  /\ starts = 2 /\ recordCalls = 2 /\ uploadCalls = 2

---------------------------------------------------------------------------
(* Properties of the scanner screens, under ScanSpec (C25 under FoodSpec) *)

\* s is ordered from the latest scan to the earliest
MostRecentFirst(s) ==
  \A i \in 1..(Len(s) - 1) : s[i].when > s[i + 1].when

\* the step is a run of uploadImage receiving a 2xx response
ScanSucceeded ==
  /\ lastEvent.name = "scanSettled"
  /\ lastEvent.outcome.kind = "response"
  /\ Ok(lastEvent.outcome.status)

\* C21: the barcode history holds at most 50 scans, latest first, in memory
\* and under SAVED_BARCODES; the stored value is read once, at mount, and is
\* written in the step of each successful result and in no other step, the
\* written value being the in-memory list with the new result at its head.
C21_BoundedHistory ==
  /\ [](/\ Len(savedFoods) <= HistoryCap /\ Len(storage) <= HistoryCap
        /\ MostRecentFirst(savedFoods) /\ MostRecentFirst(storage)
        /\ scanner = "barcode" => (reads = 1 /\ writes = successes)
        /\ scanner = "food" => (reads = 0 /\ writes = 0))
  /\ [][ /\ reads' = reads
         /\ (writes' # writes \/ storage' # storage) =>
              /\ ScanSucceeded'
              /\ writes' = writes + 1
              /\ storage' = savedFoods'
              /\ storage'[1] = serverResult'
         /\ (scanner = "barcode" /\ ScanSucceeded' /\ lastEvent' # lastEvent) =>
              writes' = writes + 1
       ]_allVars

\* a second result has been saved on top of 49 stored ones: the list is
\* full and the earliest scan has been dropped
C21_Witness ==
  /\ scanner = "barcode"
  /\ ScanSucceeded
  /\ writes = 2
  /\ Len(storage) = HistoryCap
  /\ storage[1].when > HistoryCap
  /\ storage[HistoryCap].when = 2

\* the runs of uploadImage / uploadToBackend whose request is unanswered
Requesting == { t \in DOMAIN uploads : uploads[t].pc = "fetch" }

\* C22: on the barcode and the food screen at most one upload request is
\* outstanding at any time.
C22_NoParallelUploads == Cardinality(Requesting) <= 1

\* the mount load is delivered and no upload is running
ScanQuiet == scanner = "barcode" /\ ~loadPending.pending /\ InFlight = {}

\* the times of the scans that a history of n stored scans and k new
\* results holds, latest first and cut at the cap
ExpectedWhens(n, k) ==
  [i \in 1..(IF n + k < HistoryCap THEN n + k ELSE HistoryCap) |->
     IF i <= k THEN HistoryCap + 1 + k - i ELSE n + k + 1 - i]

\* C23: once the mount load and the uploads have all completed, the list
\* under SAVED_BARCODES is the in-memory list, and it holds every scan that
\* was stored at mount and every successful scan since, latest first, up to
\* the cap of 50.
C23_NoHistoryLost ==
  ScanQuiet =>
    /\ storage = savedFoods
    /\ [i \in 1..Len(storage) |-> storage[i].when]
         = ExpectedWhens(Len(loadPending.value), successes)

\* the step is a run of uploadImage whose attempt under Fields[f] failed
ScanFailed(f) ==
  /\ lastEvent.name = "scanSettled"
  /\ lastEvent.field = f
  /\ ~(lastEvent.outcome.kind = "response" /\ Ok(lastEvent.outcome.status))

\* the message of the error a failed attempt leaves in lastError
FailureMessage(o) ==
  IF o.kind = "networkError" THEN o.message
  ELSE "status " \o NatToString(o.status) \o ": " \o BodyText(o.body)

FoodsAnswer(o) == o.kind = "response" /\ Ok(o.status) /\ o.body = "foods"

\* C25: on the food screen a result is only ever a 2xx response's JSON body
\* with an array foods; a settling upload with such an answer sets the
\* result and no error message, one with any other outcome (a network
\* error, a non-2xx status, a body that is not JSON or has no array foods)
\* sets the error message, alerts once and leaves the result null; result
\* and errorMsg are never both set, and analyzing is false after the upload
\* has settled.
C25_FoodResultValidated ==
  /\ [](/\ result # Null => result.body = "foods"
        /\ ~(result # Null /\ errorMsg # Null)
        /\ (scanner = "food" /\ InFlight = {}) => ~analyzing)
  /\ [][ (lastEvent'.name = "analyzeSettled" /\ uploads' # uploads) =>
           /\ ~analyzing'
           /\ IF FoodsAnswer(lastEvent'.outcome)
              THEN /\ result' # Null /\ errorMsg' = Null
                   /\ stepAlerts' = << >>
              ELSE /\ result' = Null /\ errorMsg' # Null
                   /\ Len(stepAlerts') = 1
                   /\ stepAlerts'[1].title = "Upload failed"
       ]_allVars

\* a 200 response whose foods is not an array has been refused
C25_Witness ==
  /\ lastEvent.name = "analyzeSettled"
  /\ lastEvent.outcome.kind = "response"
  /\ lastEvent.outcome.status = 200
  /\ lastEvent.outcome.body = "foodsNotArray"
  /\ result = Null
  /\ errorMsg = Str("Unexpected response shape from server")
  /\ ~analyzing

\* C26: on the barcode and the food screen the result on display is the
\* answer to an upload of the image that is selected now.
C26_ResultOfSelectedImage ==
  /\ serverResult # Null => serverResult.of = image
  /\ result # Null => result.of = image

---------------------------------------------------------------------------
(* Properties of the navigator and the chat, under AppSpec *)

\* the chat's state
chatVars == << input, messages, chatLoading, chatPc, timers, sends >>

\* user, assistant, user, ... from the first message on
Alternates(m) ==
  \A i \in 1..Len(m) :
    m[i].role = IF i % 2 = 1 THEN "user" ELSE "assistant"

\* C27: a press of Send whose trimmed input is empty changes nothing, and
\* Send cannot be pressed while a request is in flight; an accepted send
\* appends one user message with the input's text, and the settling of its
\* request, however it settles, appends one assistant message; so the
\* messages alternate user, assistant from the first on, and the last one
\* is an unanswered user message exactly while loading is true.
C27_ChatAlternates ==
  /\ [](/\ Alternates(messages)
        /\ chatLoading <=> Len(messages) % 2 = 1
        /\ chatLoading <=> chatPc # "idle"
        /\ chatLoading => ~ENABLED PressSend)
  /\ [][ /\ (lastEvent'.name = "pressSend" /\ Trim(input) = "") =>
              UNCHANGED chatVars
         /\ (lastEvent'.name = "pressSend" /\ Trim(input) # "") =>
              /\ messages' = Append(messages, Message("user", input))
              /\ chatLoading' /\ sends' = sends + 1
         /\ (chatLoading /\ ~chatLoading' /\ routes' = routes) =>
              /\ Len(messages') = Len(messages) + 1
              /\ SubSeq(messages', 1, Len(messages)) = messages
              /\ messages'[Len(messages')].role = "assistant"
         /\ (chatLoading /\ chatLoading') => messages' = messages
       ]_allVars

\* the second send of a conversation has failed: four messages alternate
C27_Witness ==
  /\ Focused = "AyurvedaBot"
  /\ lastEvent.name = "chatSettled"
  /\ lastEvent.how = "networkError"
  /\ Len(messages) = 4
  /\ messages[3] = Message("user", " hi ")
  /\ messages[4] = Message("assistant", ConnectFailed)
  /\ ~chatLoading

C30_TargetsRegistered ==
  lastEvent.name = "navigate" => lastEvent.target \in Registered(app)

---------------------------------------------------------------------------
(* Properties of the locally computing PulseScreen, under LocalSpec *)

\* the scans that have ended
EndedScans == localScans - (IF scanning THEN 1 ELSE 0)

\* C29: a scan of the locally computing PulseScreen ends once: the "Stop
\* after 20 seconds" block runs at most once per scan; when no scan is
\* running the interval is cleared and the torch is off; and the stored
\* rates of the current date are those stored at mount followed by exactly
\* one rate for each scan that has ended.
C29_ScanEndsOnce ==
  /\ scanEnds <= 1
  /\ ~scanning => (~interval /\ ~torch)
  /\ historyLoad.pc # "none" =>
       /\ Len(history) = Len(historyLoad.value) + EndedScans
       /\ SubSeq(history, 1, Len(historyLoad.value)) = historyLoad.value

====
